---- MODULE Spec2Model ----
(***************************************************************************)
(* Model of check_init_all (package variant, src/check_init_all/__init__.py) *)
(* A file is a sequence of lexical tokens; "\n" is the token NL.  The      *)
(* syntax parser (ast) is modelled on token lines, everything else is      *)
(* translated from the Python source.                                      *)
(***************************************************************************)
EXTENDS Integers, Sequences, FiniteSets, TLC

VARIABLES fs, cfg, hist, batch, fcall

vars == <<fs, cfg, hist, batch, fcall>>

(***************************************************************************)
(* Bounds                                                                  *)
(***************************************************************************)
MaxElts == 2        \* longest declared list written in an input file
MaxImports == 2     \* most import statements in an input file
MaxCalls == 2       \* direct calls of update_all_in_init in one behaviour
MaxSyms == 2        \* longest symbol list handed to format_all_string
MaxPaths == 2       \* most paths handed to check_all_in_paths

(***************************************************************************)
(* Characters and strings (a str is a sequence of one-character strings)    *)
(***************************************************************************)
Lower == {"a","b","c","d","e","f","g","h","i","j","k","l","m",
          "n","o","p","q","r","s","t","u","v","w","x","y","z"}
Upper == {"A","B","C","D","E","F","G","H","I","J","K","L","M",
          "N","O","P","Q","R","S","T","U","V","W","X","Y","Z"}
Digit == {"0","1","2","3","4","5","6","7","8","9"}

\* the character class [a-zA-Z0-9_, ] of NOQA_ALL_PATTERN
NoqaClass == Lower \cup Upper \cup Digit \cup {"_", ",", " "}

\* the literal head "# noqa: ALL" of NOQA_ALL_PATTERN
NoqaHead == <<"#"," ","n","o","q","a",":"," ","A","L","L">>

\* code point of the characters that occur in names of the model
Ord(c) == CASE c = "." -> 46
            [] c = "a" -> 97
            [] c = "b" -> 98
            [] c = "c" -> 99
            [] OTHER -> 0

RECURSIVE StrLess(_, _)
\* Python's str.__lt__: lexicographic by code point, a proper prefix is less
StrLess(x, y) ==
    IF y = <<>> THEN FALSE
    ELSE IF x = <<>> THEN TRUE
    ELSE IF Ord(Head(x)) # Ord(Head(y)) THEN Ord(Head(x)) < Ord(Head(y))
    ELSE StrLess(Tail(x), Tail(y))

StrLeq(x, y) == x = y \/ StrLess(x, y)

Range(s) == {s[i] : i \in 1..Len(s)}

RECURSIVE InsertSorted(_, _)
InsertSorted(x, s) ==
    IF s = <<>> THEN <<x>>
    ELSE IF StrLess(x, Head(s)) THEN <<x>> \o s
    ELSE <<Head(s)>> \o InsertSorted(x, Tail(s))

RECURSIVE sorted(_)
\* sorted(list): ascending, duplicates kept
sorted(s) == IF s = <<>> THEN <<>> ELSE InsertSorted(Head(s), sorted(Tail(s)))

RECURSIVE SetToSeq(_)
SetToSeq(S) == IF S = {} THEN <<>>
               ELSE LET x == CHOOSE e \in S : TRUE IN <<x>> \o SetToSeq(S \ {x})

\* sorted(set)
sorted_set(S) == sorted(SetToSeq(S))

RECURSIVE split(_, _)
\* str.split(sep) for a one-character separator
split(s, sep) ==
    IF \A i \in 1..Len(s) : s[i] # sep THEN <<s>>
    ELSE LET i == CHOOSE k \in 1..Len(s) :
                      s[k] = sep /\ \A j \in 1..(k-1) : s[j] # sep
         IN <<SubSeq(s, 1, i-1)>> \o split(SubSeq(s, i+1, Len(s)), sep)

RECURSIVE lstrip(_)
lstrip(s) == IF s # <<>> /\ Head(s) = " " THEN lstrip(Tail(s)) ELSE s

RECURSIVE rstrip(_)
rstrip(s) == IF s # <<>> /\ s[Len(s)] = " " THEN rstrip(SubSeq(s, 1, Len(s)-1)) ELSE s

\* str.strip
strip(s) == rstrip(lstrip(s))

(***************************************************************************)
(* Source text: a sequence of tokens; Chars gives the str a text stands for *)
(***************************************************************************)
Tok(t, v) == [t |-> t, v |-> v]

NL == Tok("nl", <<>>)                 \* "\n"
DECL == Tok("decl", <<>>)             \* "__all__ = ["
SEP == Tok("sep", <<>>)               \* ", "
COMMA == Tok("comma", <<>>)           \* ","
INDENT == Tok("indent", <<>>)         \* "    "
CLOSE == Tok("close", <<>>)           \* "]"
KW_IMPORT == Tok("kw_import", <<>>)   \* "import "
KW_FROM == Tok("kw_from", <<>>)       \* "from "
KW_FIMPORT == Tok("kw_fimport", <<>>) \* " import "
KW_AS == Tok("kw_as", <<>>)           \* " as "
BAD == Tok("bad", <<>>)               \* text the parser rejects
SQ(name) == Tok("sq", name)           \* 'name'
DQ(name) == Tok("dq", name)           \* "name"
ID(name) == Tok("id", name)           \* a bare identifier in the list
NAME(name) == Tok("name", name)       \* a (dotted) name of an import
REL(dots) == Tok("rel", dots)         \* the leading dots of a relative import
COMMENT(c) == Tok("comment", c)       \* a trailing comment, from its "#"
CODE(c) == Tok("code", c)             \* any other statement

TokChars(k) ==
    CASE k.t = "nl" -> <<"\n">>
      [] k.t = "decl" -> <<"_","_","a","l","l","_","_"," ","="," ","[">>
      [] k.t = "sep" -> <<",", " ">>
      [] k.t = "comma" -> <<",">>
      [] k.t = "indent" -> <<" ", " ", " ", " ">>
      [] k.t = "close" -> <<"]">>
      [] k.t = "kw_import" -> <<"i","m","p","o","r","t"," ">>
      [] k.t = "kw_from" -> <<"f","r","o","m"," ">>
      [] k.t = "kw_fimport" -> <<" ","i","m","p","o","r","t"," ">>
      [] k.t = "kw_as" -> <<" ","a","s"," ">>
      [] k.t = "bad" -> <<"(">>
      [] k.t = "sq" -> <<"'">> \o k.v \o <<"'">>
      [] k.t = "dq" -> <<"\"">> \o k.v \o <<"\"">>
      [] k.t = "comment" -> <<" ", " ">> \o k.v
      [] OTHER -> k.v

RECURSIVE Chars(_)
Chars(text) == IF text = <<>> THEN <<>> ELSE TokChars(Head(text)) \o Chars(Tail(text))

\* len(str)
len(text) == Len(Chars(text))

RECURSIVE splitlines(_)
\* str.splitlines(): the lines without their terminators; a final "\n" opens no last line
splitlines(text) ==
    IF text = <<>> THEN <<>>
    ELSE IF \A i \in 1..Len(text) : text[i] # NL THEN <<text>>
    ELSE LET i == CHOOSE k \in 1..Len(text) :
                      text[k] = NL /\ \A j \in 1..(k-1) : text[j] # NL
         IN <<SubSeq(text, 1, i-1)>> \o splitlines(SubSeq(text, i+1, Len(text)))

RECURSIVE join(_, _)
\* sep.join(items), items a list of str
join(sep, items) ==
    IF items = <<>> THEN <<>>
    ELSE IF Len(items) = 1 THEN items[1]
    ELSE items[1] \o sep \o join(sep, Tail(items))

(***************************************************************************)
(* parse_noqa                                                              *)
(***************************************************************************)
NoMatch == 0

\* NOQA_ALL_PATTERN.search: leftmost position where "# noqa: ALL" starts
NoqaSearch(s) ==
    LET hits == {i \in 1..Len(s) : i + Len(NoqaHead) - 1 <= Len(s)
                                   /\ SubSeq(s, i, i + Len(NoqaHead) - 1) = NoqaHead}
    IN IF hits = {} THEN NoMatch ELSE CHOOSE i \in hits : \A j \in hits : i <= j

\* match.group(2): the names between "[" and "]" after the head, "" when the
\* optional group (\[([a-zA-Z0-9_, ]+)\])? does not take part in the match
NoqaGroup2(s, at) ==
    LET open == at + Len(NoqaHead)
        ends == {e \in (open+1)..Len(s) : s[e] \notin NoqaClass}
        stop == IF ends = {} THEN Len(s) + 1 ELSE CHOOSE e \in ends : \A f \in ends : e <= f
    IN IF open <= Len(s) /\ s[open] = "[" /\ stop > open + 1
          /\ stop <= Len(s) /\ s[stop] = "]"
       THEN SubSeq(s, open + 1, stop - 1)
       ELSE <<>>

\* parse_noqa with a pattern that demands the bracketed list
parse_noqa_BracketRequired(comment) ==
    LET at == NoqaSearch(comment) IN
    IF at = NoMatch \/ NoqaGroup2(comment, at) = <<>> THEN [kind |-> "None", syms |-> {}]
    ELSE [kind |-> "set",
          syms |-> {strip(p) : p \in Range(split(NoqaGroup2(comment, at), ","))}]

parse_noqa(comment) ==
    LET at == NoqaSearch(comment) IN
    IF at = NoMatch THEN [kind |-> "None", syms |-> {}]
    ELSE LET g == NoqaGroup2(comment, at) IN
         IF g # <<>>
         THEN [kind |-> "set", syms |-> {strip(p) : p \in Range(split(g, ","))}]
         ELSE [kind |-> "ALL", syms |-> {}]

(***************************************************************************)
(* format_all_string                                                       *)
(***************************************************************************)
quote(symbol, use_double_quotes) == IF use_double_quotes THEN <<DQ(symbol)>> ELSE <<SQ(symbol)>>

all_items(symbols, use_double_quotes) ==
    [i \in 1..Len(symbols) |-> quote(symbols[i], use_double_quotes)]

fits(symbols, line_length, use_double_quotes) ==
    len(<<DECL>>) + len(join(<<SEP>>, all_items(symbols, use_double_quotes))) + 2 <= line_length

format_all_string(symbols, line_length, use_double_quotes) ==
    LET items == all_items(symbols, use_double_quotes) IN
    IF fits(symbols, line_length, use_double_quotes)
    THEN <<DECL>> \o join(<<SEP>>, items) \o <<CLOSE>>
    ELSE <<DECL, NL, INDENT>> \o join(<<COMMA, NL, INDENT>>, items) \o <<NL, CLOSE>>

(***************************************************************************)
(* The syntax parser (ast.parse, ast.walk) on token lines                   *)
(***************************************************************************)
None == <<>>      \* None and "" are both falsy; the code only tests truthiness

Node(kind, lineno, end_lineno, names, level, module, elts) ==
    [kind |-> kind, lineno |-> lineno, end_lineno |-> end_lineno, names |-> names,
     level |-> level, module |-> module, elts |-> elts]

RECURSIVE Aliases(_)
\* the ast.alias list of an import statement: name [as asname] {, name [as asname]}
Aliases(ts) ==
    IF ts = <<>> THEN <<>>
    ELSE IF Head(ts).t = "name"
         THEN IF Len(ts) >= 3 /\ ts[2].t = "kw_as"
              THEN <<[name |-> ts[1].v, asname |-> ts[3].v]>> \o Aliases(SubSeq(ts, 4, Len(ts)))
              ELSE <<[name |-> ts[1].v, asname |-> None]>> \o Aliases(Tail(ts))
         ELSE Aliases(Tail(ts))

RECURSIVE Elts(_)
\* the elements of the list display: string constants have .s, other nodes do not
Elts(ts) ==
    IF ts = <<>> THEN <<>>
    ELSE IF Head(ts).t \in {"sq", "dq"}
         THEN <<[isstr |-> TRUE, s |-> Head(ts).v]>> \o Elts(Tail(ts))
         ELSE IF Head(ts).t = "id"
              THEN <<[isstr |-> FALSE, s |-> Head(ts).v]>> \o Elts(Tail(ts))
              ELSE Elts(Tail(ts))

HasTok(line, t) == \E i \in 1..Len(line) : line[i].t = t

\* the line that closes the list display opened on line i (0: never closed)
CloseLine(lines, i) ==
    LET c == {j \in i..Len(lines) : HasTok(lines[j], "close")}
    IN IF c = {} THEN 0 ELSE CHOOSE j \in c : \A k \in c : j <= k

\* the statement that starts on line i
Stmt(lines, i) ==
    LET line == lines[i] IN
    IF Head(line).t = "kw_import"
    THEN Node("Import", i, i, Aliases(Tail(line)), 0, None, <<>>)
    ELSE IF Head(line).t = "kw_from"
    THEN LET rel == {k \in 1..Len(line) : line[k].t = "rel"}
             at == CHOOSE k \in 1..Len(line) : line[k].t = "kw_fimport"
             mod == {k \in 1..(at-1) : line[k].t = "name"}
         IN Node("ImportFrom", i, i, Aliases(SubSeq(line, at + 1, Len(line))),
                 IF rel = {} THEN 0 ELSE Len(line[CHOOSE k \in rel : TRUE].v),
                 IF mod = {} THEN None ELSE line[CHOOSE k \in mod : TRUE].v, <<>>)
    ELSE IF Head(line).t = "decl"
    THEN LET e == CloseLine(lines, i)
         IN Node("Assign", i, e, <<>>, 0, None,
                 Elts(join(<<NL>>, SubSeq(lines, i, e))))
    ELSE Node("Other", i, i, <<>>, 0, None, <<>>)

\* ast.parse raises SyntaxError
SyntaxError(text) ==
    LET lines == splitlines(text) IN
    \/ \E i \in 1..Len(text) : text[i].t = "bad"
    \/ \E i \in 1..Len(lines) :
          lines[i] # <<>> /\ Head(lines[i]).t = "decl" /\ CloseLine(lines, i) = 0

\* the lines on which a statement starts (the continuation lines of a list are none)
StmtLines(lines) ==
    {i \in 1..Len(lines) :
        /\ lines[i] # <<>>
        /\ Head(lines[i]).t \in {"kw_import", "kw_from", "decl", "code"}}

\* ast.walk(ast.parse(text)): the statement nodes, in source order
walk(text) ==
    LET lines == splitlines(text)
        at == StmtLines(lines)
        RECURSIVE From(_)
        From(i) == IF i > Len(lines) THEN <<>>
                   ELSE IF i \in at THEN <<Stmt(lines, i)>> \o From(i + 1)
                   ELSE From(i + 1)
    IN From(1)

(***************************************************************************)
(* get_all_imports                                                         *)
(***************************************************************************)
\* alias.asname or alias.name
BoundAs(alias) == IF alias.asname # None THEN alias.asname ELSE alias.name

\* name.split('.')[-1]
LastSegment(name) == LET parts == split(name, ".") IN parts[Len(parts)]

\* the names added to `imports` by the loop over ast.walk(tree)
CollectImports(tree) ==
    UNION {
        IF tree[n].kind = "Import"
        THEN {BoundAs(tree[n].names[k]) : k \in 1..Len(tree[n].names)}
        ELSE IF tree[n].kind = "ImportFrom"
             THEN IF tree[n].level = 0 /\ tree[n].module # None
                  THEN {BoundAs(tree[n].names[k]) : k \in 1..Len(tree[n].names)}
                  ELSE IF tree[n].level > 0
                       THEN {BoundAs(tree[n].names[k]) : k \in 1..Len(tree[n].names)}
                       ELSE {}
             ELSE {}
        : n \in 1..Len(tree)}

StripModulePath(imports) == {LastSegment(name) : name \in imports}

get_all_imports(text) == StripModulePath(CollectImports(walk(text)))

(***************************************************************************)
(* print_errors                                                            *)
(***************************************************************************)
Printed(kind, lineno, names) == [kind |-> kind, lineno |-> lineno, names |-> names]

print_errors(all_lineno, is_sorted, missing, extra) ==
    LET errors ==
            (IF ~is_sorted THEN <<Printed("not sorted", all_lineno, <<>>)>> ELSE <<>>)
         \o (IF missing # <<>> THEN <<Printed("Missing symbols", all_lineno, missing)>> ELSE <<>>)
         \o (IF extra # <<>> THEN <<Printed("Extra symbols", all_lineno, extra)>> ELSE <<>>)
        ignored_symbols == sorted_set(Range(missing \o extra))
    IN IF errors # <<>>
       THEN errors \o <<Printed("note", all_lineno, ignored_symbols)>>
       ELSE errors

(***************************************************************************)
(* update_all_in_init                                                      *)
(***************************************************************************)
\* what one call did: the exception it raised, what it printed, the file
\* afterwards, whether it opened the file for writing, and its locals
Base(source, line_length, use_double_quotes, fix) ==
    [source |-> source, line_length |-> line_length,
     use_double_quotes |-> use_double_quotes, fix |-> fix,
     raised |-> "none", branch |-> "raised", out |-> <<>>, text |-> source,
     wrote |-> FALSE, imports |-> {}, all_var |-> <<>>, all_lineno |-> 0,
     all_start |-> 0, all_end |-> 0, noqa_symbols |-> {}, missing |-> <<>>,
     extra |-> <<>>, is_sorted |-> TRUE, updated_all |-> <<>>, all_string |-> <<>>]

\* the first ast.Assign to __all__ that ast.walk yields (0: there is none)
FirstAssign(tree) ==
    LET a == {n \in 1..Len(tree) : tree[n].kind = "Assign"}
    IN IF a = {} THEN 0 ELSE CHOOSE n \in a : \A m \in a : n <= m

\* lines[all_start:all_end + 1] = [all_string]   (all_start, all_end 0-based)
SpliceLines(lines, all_start, all_end, all_string) ==
    SubSeq(lines, 1, all_start) \o <<all_string>> \o SubSeq(lines, all_end + 2, Len(lines))

\* filepath.open('a'); file.write(f"\n{...}\n")
AppendDecl(source, all_string) == source \o <<NL>> \o all_string \o <<NL>>

\* filepath.open('w'); file.write("\n".join(lines))
WriteLines(lines) == join(<<NL>>, lines)

\* missing computed without the exemptions
Missing_WithoutNoqa(imports, all_var, noqa_symbols) == sorted_set(imports \ Range(all_var))

\* missing = sorted(imports - set(all_var) - noqa_symbols)
Missing(imports, all_var, noqa_symbols) == sorted_set((imports \ Range(all_var)) \ noqa_symbols)

\* extra = sorted(set(all_var) - imports - noqa_symbols)
Extra(imports, all_var, noqa_symbols) == sorted_set((Range(all_var) \ imports) \ noqa_symbols)

\* updated_all built from the lists, duplicates kept
UpdatedAll_FromLists(all_var, missing, extra) ==
    SelectSeq(sorted(all_var \o missing), LAMBDA x : x \notin Range(extra))

\* updated_all = sorted((set(all_var) | set(missing)) - set(extra))
UpdatedAll(all_var, missing, extra) ==
    sorted_set((Range(all_var) \cup Range(missing)) \ Range(extra))

\* the rewrite done whenever fix is on
ShouldRewrite_Always(fix, is_sorted, missing, extra) == fix

\* if fix and (not is_sorted or missing or extra)
ShouldRewrite(fix, is_sorted, missing, extra) ==
    fix /\ (~is_sorted \/ missing # <<>> \/ extra # <<>>)

update_all_in_init(source, line_length, use_double_quotes, fix) ==
    LET base == Base(source, line_length, use_double_quotes, fix) IN
    IF SyntaxError(source) THEN [base EXCEPT !.raised = "SyntaxError"]
    ELSE
    LET tree == walk(source)
        imports == get_all_imports(source)
        n == FirstAssign(tree)
    IN
    IF n = 0
    THEN LET new_all == sorted_set(imports)
             all_string == format_all_string(new_all, line_length, use_double_quotes)
         IN [base EXCEPT !.branch = "absent", !.imports = imports,
                         !.updated_all = new_all, !.all_string = all_string,
                         !.wrote = TRUE,
                         !.text = AppendDecl(source, all_string),
                         !.out = <<Printed("missing __all__", 0, <<>>)>>]
    ELSE
    LET node == tree[n] IN
    IF \E k \in 1..Len(node.elts) : ~node.elts[k].isstr
    THEN [base EXCEPT !.raised = "AttributeError", !.imports = imports]
    ELSE
    LET all_var == [k \in 1..Len(node.elts) |-> node.elts[k].s]
        all_lineno == node.lineno
        all_start == node.lineno - 1
        all_end == node.end_lineno - 1
        source_lines == splitlines(source)
        parsed_noqa == parse_noqa(Chars(source_lines[all_lineno]))
        found == [base EXCEPT !.imports = imports, !.all_var = all_var,
                              !.all_lineno = all_lineno, !.all_start = all_start,
                              !.all_end = all_end]
    IN
    IF parsed_noqa.kind = "ALL" THEN [found EXCEPT !.branch = "noqa"]
    ELSE
    LET noqa_symbols == parsed_noqa.syms
        missing == Missing(imports, all_var, noqa_symbols)
        extra == Extra(imports, all_var, noqa_symbols)
        is_sorted == (all_var = sorted(all_var))
        updated_all == UpdatedAll(all_var, missing, extra)
        all_string == format_all_string(updated_all, line_length, use_double_quotes)
        rewrite == ShouldRewrite(fix, is_sorted, missing, extra)
    IN [found EXCEPT !.branch = "checked", !.noqa_symbols = noqa_symbols,
                     !.missing = missing, !.extra = extra, !.is_sorted = is_sorted,
                     !.updated_all = updated_all, !.all_string = all_string,
                     !.out = print_errors(all_lineno, is_sorted, missing, extra),
                     !.wrote = rewrite,
                     !.text = IF rewrite
                              THEN WriteLines(SpliceLines(source_lines, all_start, all_end,
                                                          all_string))
                              ELSE source]

(***************************************************************************)
(* Input files                                                             *)
(***************************************************************************)
a == <<"a">>
b == <<"b">>
ab == <<"a", "b">>
c == <<"c">>

Names == {a, ab, b}

\* import statements, one per line
ImportStmts == <<
    <<KW_IMPORT, NAME(a)>>,                                  \* import a
    <<KW_FROM, REL(<<".">>), KW_FIMPORT, NAME(b)>>,          \* from . import b
    <<KW_FROM, REL(<<".">>), NAME(c), KW_FIMPORT, NAME(a), KW_AS, NAME(ab)>>,
                                                             \* from .c import a as ab
    <<KW_IMPORT, NAME(c \o <<".">> \o a)>>,                  \* import c.a
    <<KW_IMPORT, NAME(c \o <<".">> \o b), KW_AS, NAME(ab)>>, \* import c.b as ab
    <<KW_FROM, NAME(c), KW_FIMPORT, NAME(b)>>,               \* from c import b
    <<KW_FROM, NAME(c \o <<".">> \o a), KW_FIMPORT, NAME(ab)>>,
                                                             \* from c.a import ab
    <<KW_IMPORT, NAME(a), SEP, NAME(c \o <<".">> \o b)>>     \* import a, c.b
>>

\* the comments written after "__all__ = [" in the input files
ExemptB == NoqaHead \o <<"[", "b", "]">>                      \* # noqa: ALL[b]
ExemptAAb == NoqaHead \o <<"[", "a", ",", " ", "a", "b", "]">>   \* # noqa: ALL[a, ab]

Comments == {<<>>, NoqaHead, ExemptB, ExemptAAb}

RECURSIVE SeqsUpTo(_, _)
\* the sequences over S of length at most n
SeqsUpTo(S, n) ==
    IF n = 0 THEN {<<>>}
    ELSE LET shorter == SeqsUpTo(S, n - 1)
         IN shorter \cup {Append(s, x) : s \in shorter, x \in S}

RECURSIVE Lines(_, _)
\* the statements stmts[i], i in the set at, in order, each ended by "\n"
Lines(stmts, at) ==
    IF at = {} THEN <<>>
    ELSE LET i == CHOOSE k \in at : \A j \in at : k <= j
         IN stmts[i] \o <<NL>> \o Lines(stmts, at \ {i})

Trailing(comment) == IF comment = <<>> THEN <<>> ELSE <<COMMENT(comment)>>

\* __all__ = ['x', 'y']  # comment
OneLineDecl(elts, comment) ==
    <<DECL>> \o join(<<SEP>>, elts) \o <<CLOSE>> \o Trailing(comment)

\* __all__ = [  # comment
\*     'x',
\*     'y'
\* ]
ManyLineDecl(elts, comment) ==
    <<DECL>> \o Trailing(comment) \o <<NL>>
    \o (IF elts = <<>> THEN <<>> ELSE <<INDENT>> \o join(<<COMMA, NL, INDENT>>, elts) \o <<NL>>)
    \o <<CLOSE>>

\* the elements a declaration of an input file may list
StrElts == {[i \in 1..Len(s) |-> <<SQ(s[i])>>] : s \in SeqsUpTo(Names, MaxElts)}

Decls ==
    {OneLineDecl(e, k) : e \in StrElts, k \in Comments}
    \cup {ManyLineDecl(e, k) : e \in StrElts, k \in Comments}

\* what follows the declaration: nothing, "\n", or "\n" and one more line
Tails == {<<>>, <<NL>>, <<NL, CODE(<<"x">>), NL>>}

\* the import statements of the files update_all_in_init is called on
MainStmts == <<ImportStmts[1], ImportStmts[2], ImportStmts[3]>>

ImportHeads == {Lines(MainStmts, at) : at \in SUBSET (1..Len(MainStmts))}

\* parseable __init__.py files with well-formed declarations, or none
InitFiles ==
    {h \o d \o t : h \in ImportHeads, d \in Decls, t \in Tails}
    \cup {h \o t : h \in ImportHeads, t \in {<<>>, <<CODE(<<"x">>)>>, <<CODE(<<"x">>), NL>>}}

(***************************************************************************)
(* Direct calls of update_all_in_init on one file                           *)
(***************************************************************************)
TheFile == "pkg/__init__.py"

LineLengths == {15, 79}

NoBatch == [paths |-> <<>>, i |-> 0, status |-> "idle", out |-> <<>>, seen |-> <<>>]
NoCall == [op |-> "none"]

Init ==
    /\ fs \in [{TheFile} -> InitFiles]
    /\ cfg \in [line_length : LineLengths, use_double_quotes : {FALSE}, fix : BOOLEAN]
    /\ hist = <<>>
    /\ batch = NoBatch
    /\ fcall = NoCall

\* update_all_in_init(filepath, line_length, use_double_quotes, fix)
Call(p) ==
    /\ Len(hist) < MaxCalls
    /\ LET r == update_all_in_init(fs[p], cfg.line_length, cfg.use_double_quotes, cfg.fix)
       IN /\ fs' = [fs EXCEPT ![p] = r.text]
          /\ hist' = Append(hist, r)
    /\ UNCHANGED <<cfg, batch, fcall>>

Next == \E p \in DOMAIN fs : Call(p)

Spec == Init /\ [][Next]_vars

(***************************************************************************)
(* Properties of update_all_in_init                                        *)
(***************************************************************************)
Calls == {hist[i] : i \in 1..Len(hist)}

\* the comment written on the first line of the first declaration of a file
DeclComment(text) ==
    LET lines == splitlines(text)
        d == {i \in 1..Len(lines) : lines[i] # <<>> /\ Head(lines[i]).t = "decl"}
    IN IF d = {} THEN <<>>
       ELSE LET k == lines[CHOOSE i \in d : \A j \in d : i <= j]
                at == {i \in 1..Len(k) : k[i].t = "comment"}
            IN IF at = {} THEN <<>> ELSE k[CHOOSE i \in at : TRUE].v

HasDecl(text) == \E i \in 1..Len(text) : text[i] = DECL

\* the names X of the directive "# noqa: ALL[X]" of the input files
ExemptNames(comment) ==
    IF comment = ExemptB THEN {b} ELSE IF comment = ExemptAAb THEN {a, ab} ELSE {}

IsAscending(s) == \A i \in 1..(Len(s) - 1) : StrLeq(s[i], s[i + 1])
IsStrictlyAscending(s) == \A i \in 1..(Len(s) - 1) : StrLess(s[i], s[i + 1])

\* the names of the diagnostic `kind` among the printed lines
Reported(out, kind) ==
    UNION {Range(out[i].names) : i \in {j \in 1..Len(out) : out[j].kind = kind}}

Prints(out, kind) == \E i \in 1..Len(out) : out[i].kind = kind

\* C2: when the first line of the declaration carries "# noqa: ALL" with no
\* bracketed name list, update_all_in_init prints nothing and leaves the file
\* as it is, whatever the imports, the declared names, their order and fix.
C2_ExemptAllSilent ==
    \A r \in Calls :
        (HasDecl(r.source) /\ DeclComment(r.source) = NoqaHead)
        => (r.out = <<>> /\ ~r.wrote /\ r.text = r.source /\ r.raised = "none")

\* a fixing call on a file exempted with "# noqa: ALL" whose declaration is
\* unsorted and differs from the imports
C2_Witness ==
    \E r \in Calls :
        /\ HasDecl(r.source) /\ DeclComment(r.source) = NoqaHead
        /\ r.fix
        /\ ~IsAscending(r.all_var)
        /\ Range(r.all_var) \ r.imports # {}
        /\ r.imports \ Range(r.all_var) # {}

\* C3: with "# noqa: ALL[X]" on the declaration's first line, the reported
\* missing names are exactly imported - declared - X, the reported extra names
\* exactly declared - imported - X (each list ascending), and "not sorted" is
\* reported exactly when the declared list is out of order, whatever X is.
C3_ExemptExactlyX ==
    \A r \in Calls :
        LET X == ExemptNames(DeclComment(r.source))
            declared == Range(r.all_var)
        IN (HasDecl(r.source) /\ X # {}) =>
              /\ r.branch = "checked"
              /\ Reported(r.out, "Missing symbols") = (r.imports \ declared) \ X
              /\ Reported(r.out, "Extra symbols") = (declared \ r.imports) \ X
              /\ \A i \in 1..Len(r.out) : IsStrictlyAscending(r.out[i].names)
              /\ (Prints(r.out, "not sorted") <=> ~IsAscending(r.all_var))

\* a call under "# noqa: ALL[a, ab]" where an exempted name is missing and a
\* name outside X is extra and reported
C3_Witness ==
    \E r \in Calls :
        /\ HasDecl(r.source) /\ DeclComment(r.source) = ExemptAAb
        /\ ab \in r.imports /\ ab \notin Range(r.all_var)
        /\ b \in Range(r.all_var) /\ b \notin r.imports
        /\ Reported(r.out, "Extra symbols") = {b}
        /\ ~Prints(r.out, "Missing symbols")

\* C5: on a file whose declaration lists, in ascending order, exactly the
\* imported names, update_all_in_init prints nothing and does not write, with
\* fix on or off; every later run finds the same file.
C5_ConsistentFileUntouched ==
    \A i \in 1..Len(hist) :
        LET r == hist[i] IN
        (HasDecl(r.source) /\ r.raised = "none"
            /\ Range(r.all_var) = r.imports /\ IsAscending(r.all_var))
        => /\ r.out = <<>> /\ ~r.wrote /\ r.text = r.source
           /\ \A j \in i..Len(hist) : hist[j].text = r.source /\ hist[j].out = <<>>

\* two fixing runs on a consistent file with a non-empty declaration and no directive
C5_Witness ==
    /\ Len(hist) >= 2
    /\ LET r == hist[1] IN
          /\ HasDecl(r.source) /\ r.fix /\ DeclComment(r.source) = <<>>
          /\ Len(r.all_var) >= 2
          /\ Range(r.all_var) = r.imports /\ IsAscending(r.all_var)

\* C9: the corrected list is the strictly ascending (hence duplicate-free)
\* enumeration of (declared + missing) - extra, missing and extra taken after
\* the exemptions X; a name of X is in it exactly when it was declared.
C9_CorrectedSortedUnique ==
    \A r \in Calls :
        r.branch = "checked" =>
            LET X == r.noqa_symbols
                declared == Range(r.all_var)
                miss == (r.imports \ declared) \ X
                ext == (declared \ r.imports) \ X
            IN /\ IsStrictlyAscending(r.updated_all)
               /\ Range(r.updated_all) = (declared \cup miss) \ ext
               /\ Len(r.updated_all) = Cardinality((declared \cup miss) \ ext)
               /\ \A x \in X : (x \in Range(r.updated_all) <=> x \in declared)

\* a call on a declaration that lists a name twice, out of order, under
\* "# noqa: ALL[b]", b declared but not imported, and a name missing
C9_Witness ==
    \E r \in Calls :
        /\ r.branch = "checked"
        /\ r.noqa_symbols = {b}
        /\ \E i, j \in 1..Len(r.all_var) : i # j /\ r.all_var[i] = r.all_var[j]
        /\ b \in Range(r.all_var) /\ b \notin r.imports
        /\ r.missing # <<>>
        /\ b \in Range(r.updated_all)

\* position of the n-th "\n" of a text (Len + 1 when it has fewer)
NthNL(text, n) ==
    LET at == {p \in 1..Len(text) :
                  text[p] = NL /\ Cardinality({q \in 1..p : text[q] = NL}) = n}
    IN IF at = {} THEN Len(text) + 1 ELSE CHOOSE p \in at : TRUE

\* the text before line n (1-based), with the terminator of line n - 1
TextBefore(text, n) == IF n = 1 THEN <<>> ELSE SubSeq(text, 1, NthNL(text, n - 1))

\* the text after line n (1-based), from the terminator of line n on
TextAfter(text, n) == SubSeq(text, NthNL(text, n), Len(text))

\* C1: update_all_in_init never writes the file when fix is off, whether the
\* file has a matching, a mismatching or no declaration; with fix on it does
\* not write when there is no discrepancy.
C1_NoWriteUnlessFixing ==
    \A r \in Calls :
        /\ ~r.fix => (~r.wrote /\ r.text = r.source)
        /\ (r.fix /\ HasDecl(r.source) /\ r.missing = <<>> /\ r.extra = <<>> /\ r.is_sorted)
              => (~r.wrote /\ r.text = r.source)

\* C4: a rewrite of the declaration on lines start..end leaves the text before
\* line start and the text after line end, line terminators and final newline
\* included, as they were, with the formatted declaration in between.
C4_RewriteKeepsOtherText ==
    \A r \in Calls :
        (r.branch = "checked" /\ r.wrote) =>
            r.text = TextBefore(r.source, r.all_start + 1) \o r.all_string
                     \o TextAfter(r.source, r.all_end + 1)

\* C10: after a run with fix on, the next run on the resulting file prints
\* nothing and does not change the file.
C10_FixConvergesInOnePass ==
    \A i \in 1..(Len(hist) - 1) :
        (hist[i].fix /\ hist[i].raised = "none")
        => (hist[i + 1].out = <<>> /\ hist[i + 1].text = hist[i + 1].source)

(***************************************************************************)
(* check_all_in_paths                                                      *)
(***************************************************************************)
PkgInit == "pkg/__init__.py"
SubInit == "pkg/sub/__init__.py"

BatchFiles == {PkgInit, SubInit}

\* path.rglob('__init__.py') of the directories
rglob == [d \in {"pkg", "pkg/sub"} |-> IF d = "pkg" THEN {PkgInit, SubInit} ELSE {SubInit}]

\* path arguments: the two files, the two directories, a file of another name
PathArgs == BatchFiles \cup DOMAIN rglob \cup {"setup.py"}

BatchTexts == {
    <<KW_IMPORT, NAME(a), NL, DECL, SQ(a), CLOSE, NL>>,   \* consistent
    <<KW_IMPORT, NAME(a), NL, DECL, CLOSE, NL>>,          \* a is missing
    <<KW_IMPORT, NAME(a), NL>>,                           \* no declaration
    <<KW_IMPORT, NAME(a), NL, BAD, NL>>,                  \* malformed source
    <<KW_IMPORT, NAME(a), NL, DECL, ID(a), CLOSE, NL>>    \* __all__ = [a]
}

InitBatch ==
    /\ fs \in [BatchFiles -> BatchTexts]
    /\ cfg \in [line_length : {79}, use_double_quotes : {FALSE}, fix : BOOLEAN]
    /\ hist = <<>>
    /\ batch \in [paths : SeqsUpTo(PathArgs, MaxPaths), i : {1}, status : {"running"},
                  out : {<<>>}, seen : {<<>>}]
    /\ fcall = NoCall

RECURSIVE RunAll(_, _, _, _)

\* the loop after update_all_in_init returned (or raised) r on the first of files
AfterOne(files, fsys, config, done, r) ==
    IF r.raised # "none"
    THEN [fs |-> [fsys EXCEPT ![Head(files)] = r.text], done |-> Append(done, r),
          raised |-> TRUE]
    ELSE RunAll(Tail(files), [fsys EXCEPT ![Head(files)] = r.text], config, Append(done, r))

\* for init_file in files: update_all_in_init(init_file, ...), until one raises
RunAll(files, fsys, config, done) ==
    IF files = <<>> THEN [fs |-> fsys, done |-> done, raised |-> FALSE]
    ELSE AfterOne(files, fsys, config, done,
                  update_all_in_init(fsys[Head(files)], config.line_length,
                                     config.use_double_quotes, config.fix))

\* the orders in which a set of files may be enumerated
Orders(S) == {o \in [1..Cardinality(S) -> S] : Range(o) = S}

\* the effect of the loop body: res is what RunAll made of files
Commit(files, res) ==
    /\ fs' = res.fs
    /\ hist' = hist \o res.done
    /\ batch' = [batch EXCEPT !.seen = batch.seen \o SubSeq(files, 1, Len(res.done)),
                              !.i = IF res.raised THEN batch.i ELSE batch.i + 1,
                              !.status = IF res.raised THEN "raised" ELSE "running"]
    /\ UNCHANGED <<cfg, fcall>>

\* the body of `for path in paths` run on files (one file, or a directory's)
Process(files) == Commit(files, RunAll(files, fs, cfg, <<>>))

\* if path.is_file() and path.name == '__init__.py'
BatchFile ==
    /\ batch.status = "running" /\ batch.i <= Len(batch.paths)
    /\ batch.paths[batch.i] \in BatchFiles
    /\ Process(<<batch.paths[batch.i]>>)

\* elif path.is_dir(): for init_file in path.rglob('__init__.py')
BatchDir ==
    /\ batch.status = "running" /\ batch.i <= Len(batch.paths)
    /\ batch.paths[batch.i] \in DOMAIN rglob
    /\ \E order \in Orders(rglob[batch.paths[batch.i]]) : Process(order)

\* else: print(f"Warning: {path} is not a valid file or directory.")
BatchWarn ==
    /\ batch.status = "running" /\ batch.i <= Len(batch.paths)
    /\ batch.paths[batch.i] \notin BatchFiles \cup DOMAIN rglob
    /\ batch' = [batch EXCEPT !.out = Append(batch.out, batch.paths[batch.i]),
                              !.i = batch.i + 1]
    /\ UNCHANGED <<fs, cfg, hist, fcall>>

\* the loop is over: check_all_in_paths returns
BatchReturn ==
    /\ batch.status = "running" /\ batch.i > Len(batch.paths)
    /\ batch' = [batch EXCEPT !.status = "returned"]
    /\ UNCHANGED <<fs, cfg, hist, fcall>>

NextBatch == BatchFile \/ BatchDir \/ BatchWarn \/ BatchReturn

SpecBatch == InitBatch /\ [][NextBatch]_vars

\* the __init__.py files the path arguments designate
Designated(paths) ==
    UNION {IF paths[k] \in BatchFiles THEN {paths[k]}
           ELSE IF paths[k] \in DOMAIN rglob THEN rglob[paths[k]] ELSE {}
           : k \in 1..Len(paths)}

\* C6: a failure on one file (malformed source, malformed declaration) stays
\* with that file: once check_all_in_paths has stopped, every file the paths
\* designate has been processed, and no exception left the traversal.
C6_FailureConfinedToFile ==
    batch.status \in {"returned", "raised"} =>
        /\ Designated(batch.paths) \subseteq Range(batch.seen)
        /\ batch.status = "returned"

(***************************************************************************)
(* format_all_string alone                                                 *)
(***************************************************************************)
FormatLengths == {10, 12, 13, 15, 16, 20, 21, 80}

InitFormat ==
    /\ fs = <<>> /\ cfg = <<>> /\ hist = <<>> /\ batch = NoBatch
    /\ fcall \in [op : {"format_all_string"}, symbols : SeqsUpTo(Names, MaxSyms),
                  line_length : FormatLengths, use_double_quotes : BOOLEAN,
                  done : {FALSE}, result : {<<>>}]

FormatCall ==
    /\ ~fcall.done
    /\ fcall' = [fcall EXCEPT !.done = TRUE,
                              !.result = format_all_string(fcall.symbols, fcall.line_length,
                                                           fcall.use_double_quotes)]
    /\ UNCHANGED <<fs, cfg, hist, batch>>

NextFormat == FormatCall

SpecFormat == InitFormat /\ [][NextFormat]_vars

\* the rendering `__all__ = [...]` on one line
OneLine(symbols, use_double_quotes) ==
    <<DECL>> \o join(<<SEP>>, all_items(symbols, use_double_quotes)) \o <<CLOSE>>

\* C7: format_all_string returns the one-line form exactly when that line is
\* at most line_length characters long (a line of exactly line_length
\* characters stays on one line), and the indented multi-line form otherwise.
C7_OneLineIffFits ==
    fcall.done =>
        LET one == OneLine(fcall.symbols, fcall.use_double_quotes) IN
        IF len(one) <= fcall.line_length
        THEN fcall.result = one
        ELSE fcall.result # one /\ \E i \in 1..Len(fcall.result) : fcall.result[i] = INDENT

(***************************************************************************)
(* get_all_imports alone                                                   *)
(***************************************************************************)
RECURSIVE Pick(_, _)
Pick(stmts, idx) ==
    IF idx = <<>> THEN <<>> ELSE stmts[Head(idx)] \o <<NL>> \o Pick(stmts, Tail(idx))

InitImports ==
    /\ fs = <<>> /\ cfg = <<>> /\ hist = <<>> /\ batch = NoBatch
    /\ fcall \in [op : {"get_all_imports"},
                  text : {Pick(ImportStmts, idx) :
                             idx \in SeqsUpTo(1..Len(ImportStmts), MaxImports)},
                  done : {FALSE}, result : {{}}]

ImportsCall ==
    /\ ~fcall.done
    /\ fcall' = [fcall EXCEPT !.done = TRUE, !.result = get_all_imports(fcall.text)]
    /\ UNCHANGED <<fs, cfg, hist, batch>>

NextImports == ImportsCall

SpecImports == InitImports /\ [][NextImports]_vars

\* the name `import a.b.c` binds: a
FirstSegment(name) == split(name, ".")[1]

\* C8: get_all_imports yields, for a plain import, the alias if there is one
\* and else the first segment of the module path; for a from-import the alias
\* if there is one and else the imported symbol's own name.
C8_BoundNames ==
    fcall.done =>
        LET tree == walk(fcall.text) IN
        fcall.result =
            UNION {{IF tree[n].names[k].asname # None THEN tree[n].names[k].asname
                    ELSE IF tree[n].kind = "Import" THEN FirstSegment(tree[n].names[k].name)
                    ELSE tree[n].names[k].name
                    : k \in 1..Len(tree[n].names)} : n \in 1..Len(tree)}

====
